---- MODULE Spec2Model ----
(***************************************************************************)
(* Model of src/app.py: the stock forecasting script.  One run of the      *)
(* script is one behaviour: download, empty check, column flattening,      *)
(* Close-column resolution, summary statistics, series preparation for     *)
(* Prophet, the length guard, fit and predict.  Reports shown through      *)
(* st.warning / st.error / st.success are collected in ui.                 *)
(*                                                                         *)
(* Strings whose characters the code inspects (column names) are           *)
(* sequences of one-character strings.  Floats are records [k, v, s]:      *)
(* k = "num" (value v), "nan", "inf" (sign v) or "str" (unparsed text s).  *)
(* A Python name that is not bound yet is None (<<>>); a bound one is      *)
(* Some(x) (<<x>>).                                                        *)
(***************************************************************************)
EXTENDS Integers, Sequences, FiniteSets, TLC

VARIABLES pc, forecast_period, data, close_col, avg_price, max_price,
          min_price, df, model, forecast, ui

vars == <<pc, forecast_period, data, close_col, avg_price, max_price,
          min_price, df, model, forecast, ui>>

None == <<>>

Some(x) == <<x>>

\* ------------------------------------------------------------------
\* bounds of the explored inputs
\* ------------------------------------------------------------------
MaxRows == 3

MaxDay == 4

\* ------------------------------------------------------------------
\* st.sidebar.slider("Forecast Days", 30, 180, 60)
\* ------------------------------------------------------------------
SliderMin == 30

SliderMax == 180

SliderDefault == 60

Horizons == {SliderMin, SliderDefault, SliderMax}

\* ------------------------------------------------------------------
\* strings
\* ------------------------------------------------------------------
Underscore == <<"_">>

Whitespace == {" "}

CloseLiteral == <<"C", "l", "o", "s", "e">>

OpenStr == <<"O", "p", "e", "n">>

HighStr == <<"H", "i", "g", "h">>

LowStr == <<"L", "o", "w">>

VolumeStr == <<"V", "o", "l", "u", "m", "e">>

LowerCloseStr == <<"c", "l", "o", "s", "e">>

AdjCloseStr == <<"A", "d", "j", " ", "C", "l", "o", "s", "e">>

CloseAAPLStr == <<"C", "l", "o", "s", "e", "_", "A", "A", "P", "L">>

CloseXStr == <<"C", "l", "o", "s", "e", "_", "X">>

OpenXStr == <<"O", "p", "e", "n", "_", "X">>

TickerStr == <<"X">>

PaddedTickerStr == <<"X", " ">>

\* a column key of the downloaded frame: a flat string or a tuple of strings
FlatKey(s) == [isTuple |-> FALSE, parts |-> <<s>>]

TupleKey(parts) == [isTuple |-> TRUE, parts |-> parts]

\* sep.join(parts)
RECURSIVE Join(_, _)
Join(sep, parts) ==
    IF Len(parts) = 0 THEN <<>>
    ELSE IF Len(parts) = 1 THEN parts[1]
    ELSE parts[1] \o sep \o Join(sep, Tail(parts))

RECURSIVE LStrip(_)
LStrip(s) ==
    IF Len(s) > 0 /\ s[1] \in Whitespace THEN LStrip(Tail(s)) ELSE s

RECURSIVE RStrip(_)
RStrip(s) ==
    IF Len(s) > 0 /\ s[Len(s)] \in Whitespace
    THEN RStrip(SubSeq(s, 1, Len(s) - 1))
    ELSE s

\* s.strip()
Strip(s) == RStrip(LStrip(s))

\* sub in s
Contains(s, sub) ==
    \E i \in 1..(Len(s) - Len(sub) + 1) : SubSeq(s, i, i + Len(sub) - 1) = sub

\* ------------------------------------------------------------------
\* cells
\* ------------------------------------------------------------------
Num(n) == [k |-> "num", v |-> n, s |-> ""]

NaN == [k |-> "nan", v |-> 0, s |-> ""]

PosInf == [k |-> "inf", v |-> 1, s |-> ""]

NegInf == [k |-> "inf", v |-> -1, s |-> ""]

Text(t) == [k |-> "str", v |-> 0, s |-> t]

Date(d) == [k |-> "date", v |-> d, s |-> ""]

NaT == [k |-> "nat", v |-> 0, s |-> ""]

\* float64 values a downloaded price column can hold
FloatCells == {Num(100), Num(102), NaN, PosInf, NegInf}

\* the value every column other than the varied one holds in each row
FillerCell == Num(50)

\* strictly ascending day numbers: the DatetimeIndex of a download
AscendingDays(n) ==
    {q \in [1..n -> 1..MaxDay] : \A i \in 1..n : \A j \in 1..n : i < j => q[i] < q[j]}

\* ------------------------------------------------------------------
\* downloaded tables
\* ------------------------------------------------------------------
Layouts ==
    { <<FlatKey(OpenStr), FlatKey(HighStr), FlatKey(LowStr),
        FlatKey(CloseAAPLStr), FlatKey(VolumeStr)>>,
      <<TupleKey(<<CloseLiteral, TickerStr>>), TupleKey(<<OpenStr, TickerStr>>)>>,
      <<TupleKey(<<CloseLiteral, TickerStr>>), FlatKey(CloseXStr)>>,
      <<TupleKey(<<CloseLiteral, PaddedTickerStr>>), TupleKey(<<CloseLiteral, TickerStr>>)>>,
      <<TupleKey(<<OpenStr, TickerStr>>), FlatKey(OpenXStr), FlatKey(CloseLiteral)>>,
      <<FlatKey(AdjCloseStr), FlatKey(CloseLiteral)>>,
      <<FlatKey(OpenStr), FlatKey(VolumeStr)>>,
      <<FlatKey(LowerCloseStr), FlatKey(OpenStr)>> }

\* a frame: column keys, the Date index, and one value sequence per column
Frame(cols, days, varied, vals) ==
    [columns |-> cols,
     index   |-> [i \in 1..Len(days) |-> Date(days[i])],
     cells   |-> [c \in 1..Len(cols) |->
                    IF c = varied THEN vals
                    ELSE [i \in 1..Len(days) |-> FillerCell]]]

\* ------------------------------------------------------------------
\* the run
\* ------------------------------------------------------------------
Init ==
    /\ pc = "download"
    /\ forecast_period \in Horizons
    /\ data = None
    /\ close_col = None
    /\ avg_price = None
    /\ max_price = None
    /\ min_price = None
    /\ df = None
    /\ model = None
    /\ forecast = None
    /\ ui = <<>>

Report(widget, msg) == [widget |-> widget, msg |-> msg]

\* except Exception as e: st.error(f"Error fetching data: {e}")
OuterExcept == Append(ui, Report("error", "ErrorFetching"))

\* except Exception as e: st.error(f"Prophet model failed: {e}")
InnerExcept == Append(ui, Report("error", "ProphetFailed"))

\* data = yf.download(ticker, start=start_date, end=end_date)
Download ==
    /\ pc = "download"
    /\ \E n \in 0..MaxRows : \E days \in AscendingDays(n) : \E cols \in Layouts :
         \E varied \in 1..Len(cols) : \E vals \in [1..n -> FloatCells] :
            data' = Some(Frame(cols, days, varied, vals))
    /\ pc' = "check_empty"
    /\ UNCHANGED <<forecast_period, close_col, avg_price, max_price, min_price,
                   df, model, forecast, ui>>

\* yf.download raises: the outer handler reports it
DownloadRaises ==
    /\ pc = "download"
    /\ ui' = OuterExcept
    /\ pc' = "done"
    /\ UNCHANGED <<forecast_period, data, close_col, avg_price, max_price,
                   min_price, df, model, forecast>>

\* DataFrame.empty taken as 'has no columns'
DataFrameEmptyColumnsOnly(t) == Len(t.columns) = 0

\* DataFrame.empty: some axis has length 0
DataFrameEmpty(t) == Len(t.index) = 0 \/ Len(t.columns) = 0

\* if data.empty: st.warning("No data found ...")
EmptyCheck ==
    /\ pc = "check_empty"
    /\ IF DataFrameEmpty(data[1])
       THEN /\ ui' = Append(ui, Report("warning", "NoData"))
            /\ pc' = "done"
       ELSE /\ ui' = ui
            /\ pc' = "flatten"
    /\ UNCHANGED <<forecast_period, data, close_col, avg_price, max_price,
                   min_price, df, model, forecast>>

\* '_'.join(col).strip() if isinstance(col, tuple) else col
FlattenKey(col) ==
    IF col.isTuple THEN FlatKey(Strip(Join(Underscore, col.parts))) ELSE col

\* data.columns = [ ... for col in data.columns]
FlattenColumns ==
    /\ pc = "flatten"
    /\ data' = Some([data[1] EXCEPT !.columns =
                        [c \in 1..Len(data[1].columns) |-> FlattenKey(data[1].columns[c])]])
    /\ pc' = "resolve"
    /\ UNCHANGED <<forecast_period, close_col, avg_price, max_price, min_price,
                   df, model, forecast, ui>>

\* the name a flattened key carries
KeyName(col) == col.parts[1]

IsCloseKey(col) == Contains(KeyName(col), CloseLiteral)

\* close_cols = [col for col in data.columns if 'Close' in col]
CloseCols(t) == SelectSeq(t.columns, IsCloseKey)

\* close_cols[-1] in place of close_cols[0]
LastMatch(close_cols) == close_cols[Len(close_cols)]

\* close_col = close_cols[0]
FirstMatch(close_cols) == close_cols[1]

ResolveClose ==
    /\ pc = "resolve"
    /\ IF Len(CloseCols(data[1])) = 0
       THEN /\ ui' = Append(ui, Report("error", "NoCloseColumn"))
            /\ close_col' = close_col
            /\ pc' = "done"
       ELSE /\ close_col' = Some(KeyName(FirstMatch(CloseCols(data[1]))))
            /\ ui' = Append(ui, Report("success", "UsingColumn"))
            /\ pc' = "stats"
    /\ UNCHANGED <<forecast_period, data, avg_price, max_price, min_price,
                   df, model, forecast>>

\* data[close_col]: the positions of the columns carrying that name
Selected(t, name) == {c \in 1..Len(t.columns) : KeyName(t.columns[c]) = name}

\* the one column data[close_col] is when the name is unique
Column(t, name) == t.cells[CHOOSE c \in Selected(t, name) : TRUE]

IsNotNaN(x) == x.k # "nan"

RECURSIVE SumSeq(_)
SumSeq(q) == IF Len(q) = 0 THEN 0 ELSE q[1].v + SumSeq(Tail(q))

HasCell(q, x) == \E i \in 1..Len(q) : q[i] = x

Finite(q) == SelectSeq(q, LAMBDA x : x.k = "num")

\* Series.mean(): NaN skipped, infinities are not; the mean is v / n
SeriesMean(col) ==
    LET q == SelectSeq(col, IsNotNaN) IN
    IF Len(q) = 0 THEN [k |-> "nan", v |-> 0, n |-> 1]
    ELSE IF HasCell(q, PosInf) /\ HasCell(q, NegInf) THEN [k |-> "nan", v |-> 0, n |-> 1]
    ELSE IF HasCell(q, PosInf) THEN [k |-> "inf", v |-> 1, n |-> 1]
    ELSE IF HasCell(q, NegInf) THEN [k |-> "inf", v |-> -1, n |-> 1]
    ELSE [k |-> "num", v |-> SumSeq(q), n |-> Len(q)]

\* Series.max(): NaN skipped
SeriesMax(col) ==
    LET q == SelectSeq(col, IsNotNaN) IN
    IF Len(q) = 0 THEN NaN
    ELSE IF HasCell(q, PosInf) THEN PosInf
    ELSE IF Len(Finite(q)) = 0 THEN NegInf
    ELSE LET f == Finite(q) IN
         Num(CHOOSE m \in {f[i].v : i \in 1..Len(f)} : \A i \in 1..Len(f) : f[i].v <= m)

\* Series.min(): NaN skipped
SeriesMin(col) ==
    LET q == SelectSeq(col, IsNotNaN) IN
    IF Len(q) = 0 THEN NaN
    ELSE IF HasCell(q, NegInf) THEN NegInf
    ELSE IF Len(Finite(q)) = 0 THEN PosInf
    ELSE LET f == Finite(q) IN
         Num(CHOOSE m \in {f[i].v : i \in 1..Len(f)} : \A i \in 1..Len(f) : m <= f[i].v)

\* avg_price = float(data[close_col].mean()) and the two lines after it.
\* When two columns carry the name, data[close_col] is a DataFrame, its
\* mean() is a Series of two values and float() raises TypeError, which the
\* outer handler reports.
SummaryStatistics ==
    /\ pc = "stats"
    /\ IF Cardinality(Selected(data[1], close_col[1])) > 1
       THEN /\ ui' = OuterExcept
            /\ pc' = "done"
            /\ UNCHANGED <<avg_price, max_price, min_price>>
       ELSE /\ avg_price' = Some(SeriesMean(Column(data[1], close_col[1])))
            /\ max_price' = Some(SeriesMax(Column(data[1], close_col[1])))
            /\ min_price' = Some(SeriesMin(Column(data[1], close_col[1])))
            /\ ui' = ui
            /\ pc' = "prepare"
    /\ UNCHANGED <<forecast_period, data, close_col, df, model, forecast>>

\* float(s) as pd.to_numeric applies it to a string
ParseFloat(t) ==
    CASE t = "7" -> Num(7)
      [] t = "inf" -> PosInf
      [] t = "-inf" -> NegInf
      [] OTHER -> NaN

\* pd.to_numeric(x, errors='coerce') on one cell
ToNumeric(x) == IF x.k = "str" THEN ParseFloat(x.s) ELSE x

\* the date a string denotes
ParseDate(t) ==
    CASE t = "2024-01-02" -> Date(2)
      [] t = "2024-01-03" -> Date(3)
      [] OTHER -> NaT

\* pd.to_datetime(x, errors='coerce') on one cell
ToDatetime(x) == IF x.k = "str" THEN ParseDate(x.s) ELSE x

\* replace([np.inf], np.nan): the negative infinity forgotten
ReplacePosInfOnly(x) == IF x = PosInf THEN NaN ELSE x

\* replace([np.inf, -np.inf], np.nan) on one cell
ReplaceInf(x) == IF x = PosInf \/ x = NegInf THEN NaN ELSE x

\* dropna(subset=['ds', 'y']) keeps this row
NotNaRow(r) == r.ds.k # "nat" /\ r.y.k # "nan"

\* df = data[[close_col]].reset_index() ... dropna(subset=['ds', 'y'])
PrepareSeries(t, name) ==
    LET col == Column(t, name)
        renamed == [i \in 1..Len(t.index) |-> [ds |-> t.index[i], y |-> col[i]]]
        dated   == [i \in 1..Len(renamed) |-> [renamed[i] EXCEPT !.ds = ToDatetime(@)]]
        numeric == [i \in 1..Len(dated) |-> [dated[i] EXCEPT !.y = ToNumeric(@)]]
        noinf   == [i \in 1..Len(numeric) |->
                      [ds |-> ReplaceInf(numeric[i].ds), y |-> ReplaceInf(numeric[i].y)]]
    IN  SelectSeq(noinf, NotNaRow)

Prepare ==
    /\ pc = "prepare"
    /\ df' = Some(PrepareSeries(data[1], close_col[1]))
    /\ pc' = "guard"
    /\ UNCHANGED <<forecast_period, data, close_col, avg_price, max_price,
                   min_price, model, forecast, ui>>

\* if len(df) < 1
TooShortOffByOne(frame) == Len(frame) < 1

\* if len(df) < 2
TooShort(frame) == Len(frame) < 2

LengthGuard ==
    /\ pc = "guard"
    /\ IF TooShort(df[1])
       THEN /\ ui' = Append(ui, Report("warning", "NotEnoughData"))
            /\ pc' = "done"
       ELSE /\ ui' = ui
            /\ pc' = "fit"
    /\ UNCHANGED <<forecast_period, data, close_col, avg_price, max_price,
                   min_price, df, model, forecast>>

RECURSIVE SortedSeq(_)
SortedSeq(S) ==
    IF S = {} THEN <<>>
    ELSE LET m == CHOOSE x \in S : \A y \in S : x <= y
         IN  <<m>> \o SortedSeq(S \ {m})

\* Prophet.fit keeps the sorted distinct dates of the history
HistoryDates(frame) == SortedSeq({frame[i].ds.v : i \in 1..Len(frame)})

\* model = Prophet(); model.fit(df)
Fit ==
    /\ pc = "fit"
    /\ model' = Some([history_dates |-> HistoryDates(df[1])])
    /\ pc' = "predict"
    /\ UNCHANGED <<forecast_period, data, close_col, avg_price, max_price,
                   min_price, df, forecast, ui>>

\* the fit raises: the inner handler reports it
FitRaises ==
    /\ pc = "fit"
    /\ ui' = InnerExcept
    /\ pc' = "done"
    /\ UNCHANGED <<forecast_period, data, close_col, avg_price, max_price,
                   min_price, df, model, forecast>>

\* a future frame that counts the last history date among the periods
MakeFutureDataframeFromLast(m, periods) ==
    LET last_date == m.history_dates[Len(m.history_dates)]
    IN  m.history_dates \o [i \in 1..(periods - 1) |-> last_date + i]

\* model.make_future_dataframe(periods): the history dates followed by the
\* periods daily dates after the last of them
MakeFutureDataframe(m, periods) ==
    LET last_date == m.history_dates[Len(m.history_dates)]
    IN  m.history_dates \o [i \in 1..periods |-> last_date + i]

\* future = model.make_future_dataframe(periods=forecast_period)
\* forecast = model.predict(future): one row per date of future.  Only the
\* ds column is modelled; yhat, yhat_lower and yhat_upper are Prophet's.
Predict ==
    /\ pc = "predict"
    /\ forecast' = Some(MakeFutureDataframe(model[1], forecast_period))
    /\ pc' = "done"
    /\ UNCHANGED <<forecast_period, data, close_col, avg_price, max_price,
                   min_price, df, model, ui>>

Next ==
    \/ Download
    \/ DownloadRaises
    \/ EmptyCheck
    \/ FlattenColumns
    \/ ResolveClose
    \/ SummaryStatistics
    \/ Prepare
    \/ LengthGuard
    \/ Fit
    \/ FitRaises
    \/ Predict

Spec == Init /\ [][Next]_vars

\* ------------------------------------------------------------------
\* the series validator on its own: lines 103-109 applied to a frame whose
\* index and selected column may hold text, then applied again to its output
\* ------------------------------------------------------------------
ValidatorDates == {Date(1), Text("2024-01-02"), Text("not a date")}

ValidatorValues == {Num(100), NaN, PosInf, NegInf, Text("7"), Text("abc"), Text("inf")}

\* the frame a prepared series is when it is handed to the same lines again
AsFrame(frame, name) ==
    [columns |-> <<FlatKey(name)>>,
     index   |-> [i \in 1..Len(frame) |-> frame[i].ds],
     cells   |-> <<[i \in 1..Len(frame) |-> frame[i].y]>>]

InitValidator ==
    /\ pc = "prepare"
    /\ forecast_period = SliderDefault
    /\ \E n \in 0..MaxRows : \E idx \in [1..n -> ValidatorDates] :
         \E vals \in [1..n -> ValidatorValues] :
            data = Some([columns |-> <<FlatKey(CloseLiteral)>>, index |-> idx,
                         cells |-> <<vals>>])
    /\ close_col = Some(CloseLiteral)
    /\ avg_price = None
    /\ max_price = None
    /\ min_price = None
    /\ df = None
    /\ model = None
    /\ forecast = None
    /\ ui = <<>>

Revalidate ==
    /\ pc = "guard"
    /\ data' = Some(AsFrame(df[1], close_col[1]))
    /\ df' = Some(PrepareSeries(AsFrame(df[1], close_col[1]), close_col[1]))
    /\ pc' = "revalidated"
    /\ UNCHANGED <<forecast_period, close_col, avg_price, max_price, min_price,
                   model, forecast, ui>>

NextValidator == Prepare \/ Revalidate

SpecValidator == InitValidator /\ [][NextValidator]_vars

\* ------------------------------------------------------------------
\* properties
\* ------------------------------------------------------------------
HasReport(msg) == \E i \in 1..Len(ui) : ui[i].msg = msg

\* the reports that are failures, in the order shown
Failures == SelectSeq(ui, LAMBDA r : r.widget \in {"warning", "error"})

FailureNames == [i \in 1..Len(Failures) |-> Failures[i].msg]

HasDuplicates(q) == \E i \in 1..Len(q) : \E j \in 1..Len(q) : i < j /\ q[i] = q[j]

NoRows(t) == Len(t.index) = 0

\* lines 55-58 have run on data
Flattened ==
    \/ pc \in {"resolve", "stats", "prepare", "guard", "fit", "predict"}
    \/ pc = "done" /\ data # None /\ ~NoRows(data[1])

\* C1: a download with zero rows ends the run with the no-data report, and
\* no later stage has acted: the column keys are still the downloaded ones,
\* no column is resolved, no statistic, series, model or forecast exists.
C1_NoDataStopsRun ==
    (data # None /\ NoRows(data[1]) /\ pc # "check_empty") =>
        /\ pc = "done"
        /\ ui = <<Report("warning", "NoData")>>
        /\ data[1].columns \in Layouts
        /\ close_col = None
        /\ avg_price = None /\ max_price = None /\ min_price = None
        /\ df = None /\ model = None /\ forecast = None

C1_Witness ==
    /\ pc = "done"
    /\ data # None
    /\ NoRows(data[1])
    /\ \E c \in 1..Len(data[1].columns) : data[1].columns[c].isTuple
    /\ HasReport("NoData")

\* C2: after flattening, the table has no tuple key and no two equal keys;
\* where flattening makes two keys equal the normalizer has failed with
\* SchemaError and no table went on to the resolver.
C2_UniqueFlatKeysOrSchemaError ==
    Flattened =>
        /\ \A c \in 1..Len(data[1].columns) : ~data[1].columns[c].isTuple
        /\ \/ ~HasDuplicates(data[1].columns)
           \/ HasReport("SchemaError") /\ pc = "done" /\ close_col = None

\* C3: the resolved column is the first column, in table order, whose name
\* contains "Close" (case-sensitive); the example table resolves to
\* "Close_AAPL"; with no such column the run ends with the column-not-found
\* report and no later stage has acted.
C3_FirstCloseColumn ==
    /\ close_col # None =>
          \E i \in 1..Len(data[1].columns) :
             /\ Contains(KeyName(data[1].columns[i]), CloseLiteral)
             /\ \A j \in 1..(i - 1) : ~Contains(KeyName(data[1].columns[j]), CloseLiteral)
             /\ close_col[1] = KeyName(data[1].columns[i])
    /\ (close_col # None /\ Len(data[1].columns) = 5) => close_col[1] = CloseAAPLStr
    /\ (Flattened /\ pc # "resolve"
         /\ \A c \in 1..Len(data[1].columns) :
               ~Contains(KeyName(data[1].columns[c]), CloseLiteral)) =>
          /\ pc = "done"
          /\ ui = <<Report("error", "NoCloseColumn")>>
          /\ close_col = None
          /\ avg_price = None /\ max_price = None /\ min_price = None
          /\ df = None /\ model = None /\ forecast = None

C3_Witness ==
    /\ pc = "done"
    /\ close_col = Some(AdjCloseStr)
    /\ Len(CloseCols(data[1])) = 2
    /\ KeyName(data[1].columns[2]) = CloseLiteral

\* the rows of frame t whose date parses to a date and whose value parses
\* to a finite number, parsed, in their order
RECURSIVE UsableRows(_, _)
UsableRows(idx, vals) ==
    IF Len(idx) = 0 THEN <<>>
    ELSE LET rest == UsableRows(Tail(idx), Tail(vals))
         IN  IF ToDatetime(idx[1]).k = "date" /\ ToNumeric(vals[1]).k = "num"
             THEN <<[ds |-> ToDatetime(idx[1]), y |-> ToNumeric(vals[1])]>> \o rest
             ELSE rest

\* C4: the validated series is exactly the input rows with a valid date and
\* a finite value, in their original order, and validating that series again
\* returns it unchanged.
C4_ValidatedSeriesExactAndIdempotent ==
    /\ pc = "guard" => df[1] = UsableRows(data[1].index, data[1].cells[1])
    /\ pc = "revalidated" =>
          /\ df[1] = [i \in 1..Len(data[1].index) |->
                        [ds |-> data[1].index[i], y |-> data[1].cells[1][i]]]
          /\ \A i \in 1..Len(df[1]) : df[1][i].ds.k = "date" /\ df[1][i].y.k = "num"

C4_Witness ==
    /\ pc = "guard"
    /\ Len(data[1].index) = 3
    /\ data[1].cells[1] = <<Text("7"), NegInf, Num(100)>>
    /\ data[1].index = <<Text("2024-01-02"), Date(1), Date(1)>>
    /\ df[1] = <<[ds |-> Date(2), y |-> Num(7)], [ds |-> Date(1), y |-> Num(100)]>>

\* the validated series of the run's table and resolved column
Validated == PrepareSeries(data[1], close_col[1])

UniqueSelection == close_col # None /\ Cardinality(Selected(data[1], close_col[1])) = 1

\* C5: the reported statistics are the mean, maximum and minimum of the
\* values of the validated series (rows with missing or infinite values
\* excluded).
C5_StatsOverValidatedSeries ==
    (avg_price # None /\ UniqueSelection /\ Len(Validated) >= 1) =>
        LET V == Validated
            ys == {V[i].y.v : i \in 1..Len(V)}
        IN  /\ avg_price[1].k = "num"
            /\ avg_price[1].v * Len(V) = SumSeq([i \in 1..Len(V) |-> V[i].y]) * avg_price[1].n
            /\ max_price[1].k = "num" /\ max_price[1].v \in ys
            /\ \A y \in ys : y <= max_price[1].v
            /\ min_price[1].k = "num" /\ min_price[1].v \in ys
            /\ \A y \in ys : min_price[1].v <= y

C7_ForecastHorizon ==
    forecast # None =>
        LET f == forecast[1]
            hist == {df[1][i].ds.v : i \in 1..Len(df[1])}
            first == CHOOSE d \in hist : \A e \in hist : d <= e
            last == CHOOSE d \in hist : \A e \in hist : e <= d
        IN  /\ Len(df[1]) >= 2
            /\ forecast_period >= 1
            /\ f[1] = first
            /\ f[Len(f)] = last + forecast_period
            /\ \A i \in 1..Len(f) : first <= f[i] /\ f[i] <= last + forecast_period
            /\ hist \subseteq {f[i] : i \in 1..Len(f)}
            /\ (last + 1)..(last + forecast_period) \subseteq {f[i] : i \in 1..Len(f)}
            /\ Cardinality({i \in 1..Len(f) : f[i] > last}) = forecast_period

C7_Witness ==
    /\ forecast # None
    /\ forecast_period = SliderMin
    /\ Len(data[1].index) = 3
    /\ Len(df[1]) = 2
    /\ df[1][1].ds = Date(1)
    /\ df[1][2].ds = Date(4)
    /\ Len(forecast[1]) = 2 + SliderMin

\* C8: every failure reaches the boundary as the failing stage's own error,
\* exactly one failure is reported, no stage after the failing one has
\* acted, and no run holds both a failure and a forecast.
C8_ErrorsReachBoundary ==
    (pc = "done" /\ data # None) =>
        LET t == data[1]
            noLater == /\ avg_price = None /\ max_price = None /\ min_price = None
                       /\ df = None /\ model = None /\ forecast = None
        IN  /\ Len(Failures) <= 1
            /\ Len(Failures) = 1 => forecast = None
            /\ NoRows(t) => FailureNames = <<"NoData">> /\ close_col = None /\ noLater
            /\ (~NoRows(t) /\ HasDuplicates(t.columns)) =>
                  FailureNames = <<"SchemaError">> /\ close_col = None /\ noLater
            /\ (~NoRows(t) /\ ~HasDuplicates(t.columns) /\ Len(CloseCols(t)) = 0) =>
                  FailureNames = <<"NoCloseColumn">> /\ noLater
            /\ (~NoRows(t) /\ ~HasDuplicates(t.columns) /\ Len(CloseCols(t)) > 0) =>
                  /\ Len(Validated) = 0 =>
                        FailureNames = <<"EmptySeries">> /\ noLater
                  /\ Len(Validated) = 1 =>
                        FailureNames = <<"NotEnoughData">> /\ model = None /\ forecast = None
                  /\ (Len(Validated) >= 2 /\ forecast = None) =>
                        FailureNames = <<"ProphetFailed">>

\* C9: when the table has rows and a Close column but no row survives
\* validation, the statistics stage fails with EmptySeriesError and reports
\* no mean, maximum or minimum.
C9_EmptySeriesFailsStatistics ==
    (pc \in {"prepare", "guard", "fit", "predict", "done"}
       /\ UniqueSelection /\ ~NoRows(data[1]) /\ Len(Validated) = 0) =>
        /\ avg_price = None /\ max_price = None /\ min_price = None
        /\ HasReport("EmptySeries")
====
